---- MODULE Spec2Model ----
(***************************************************************************)
(* NewsGenie query-routing workflow (src/workflows/graph.py, nodes.py,     *)
(* state.py), with the collaborators it calls (src/agents/chatbot.py,      *)
(* src/tools/news_fetcher.py, src/tools/web_search.py).                    *)
(*                                                                         *)
(* Confidence values are kept in tenths: 0.6 is 6, 0.5 is 5, 1.0 is 10.    *)
(* Python's None is the record/string whose kind is "None".                *)
(***************************************************************************)
EXTENDS Integers, Sequences, FiniteSets, TLC

\* ------------------------------------------------------------------ bounds
MaxArticles == 6      \* most articles the news API returns in the model
MaxResults == 4       \* most results the web search returns in the model
MaxHist == 1          \* longest caller-supplied history in the model
MaxWords == 2         \* longest query, in words
MaxTurns == 2         \* most user turns a session holds before it is cleared

\* --------------------------------------------------------- program constants
ConfidenceThreshold == 6   \* graph.py: confidence > 0.6
MinArticles == 3           \* graph.py: len(articles) < 3
NewsContextLimit == 5      \* nodes.py: articles[:5]
WebContextLimit == 3       \* nodes.py: results[:3]
FallbackConfidence == 5    \* chatbot.py: "confidence": 0.5

Min(a, b) == IF a < b THEN a ELSE b

\* settings.news_categories, in enumeration order
news_categories ==
  <<"general", "business", "technology", "entertainment", "health",
    "science", "sports">>

\* ------------------------------------------------------------- input domains
Words == {"Technology", "esports", "python"}

\* str.lower() on the words of the model's vocabulary
Lower(w) == IF w = "Technology" THEN "technology" ELSE w

\* What the user types in a session.
SessionQueries == {<<"python">>, <<"Technology">>}

\* The queries that are run twice against fixed stubs: one without, one
\* with category words.
StubQueries == {<<"python">>, <<"esports", "Technology">>}

Queries == UNION {[1..n -> Words] : n \in 1..MaxWords}

Roles == {"user", "assistant"}
\* Message contents are sequences of text tokens.
Turn == [role : Roles, content : {<<"hi">>}]
Histories == UNION {[1..n -> Turn] : n \in 0..MaxHist}

Confidences == {0, 5, 6, 7, 10}

\* The three-backtick marker of a markdown code fence, as one token of text.
Fence == "fence"

\* The text before the body of a reply: nothing, an opening code fence, or
\* an opening code fence tagged json.
FenceOpenings == {<<>>, <<Fence>>, <<Fence, "json">>}

\* What the language model answers to the classification prompt: the call
\* fails, or it returns text: an optional opening fence, a body (not JSON, a
\* JSON list, or a JSON object with or without its fields) and an optional
\* closing fence. Every body occurs bare; the fenced forms occur with one
\* body of each kind.
ClassifierReplies ==
  [kind : {"call_failed", "not_json", "json_list"},
   opening : {<<>>}, closed : {FALSE},
   has_is_news : {FALSE}, is_news_request : {FALSE},
   has_confidence : {FALSE}, confidence : {0}]
  \cup
  [kind : {"json_object"}, opening : {<<>>}, closed : {FALSE},
   has_is_news : {TRUE}, is_news_request : BOOLEAN,
   has_confidence : {TRUE}, confidence : Confidences]
  \cup
  [kind : {"json_object"}, opening : {<<>>}, closed : {FALSE},
   has_is_news : {FALSE}, is_news_request : {FALSE},
   has_confidence : {TRUE}, confidence : {10}]
  \cup
  [kind : {"json_object"}, opening : {<<>>}, closed : {FALSE},
   has_is_news : {TRUE}, is_news_request : {TRUE},
   has_confidence : {FALSE}, confidence : {0}]
  \cup
  [kind : {"not_json", "json_list"}, opening : FenceOpenings, closed : BOOLEAN,
   has_is_news : {FALSE}, is_news_request : {FALSE},
   has_confidence : {FALSE}, confidence : {0}]
  \cup
  [kind : {"json_object"}, opening : FenceOpenings, closed : BOOLEAN,
   has_is_news : {TRUE}, is_news_request : BOOLEAN,
   has_confidence : {TRUE}, confidence : {10}]

\* What the NewsAPI client does: raises, answers a non-ok status, or answers
\* ok with n raw articles.
NewsApiOutcomes ==
  [kind : {"raises", "not_ok"}, n : {0}] \cup [kind : {"ok"}, n : 0..MaxArticles]

\* What DDGS().text does: raises, or yields n raw results.
DdgsOutcomes == [kind : {"raises"}, n : {0}] \cup [kind : {"ok"}, n : 0..MaxResults]

\* What the NewsAPI client does for a direct call of a NewsFetcher operation:
\* as above, or it answers ok with n articles of which one is malformed.
ToolNewsOutcomes ==
  NewsApiOutcomes \cup [kind : {"malformed"}, n : 1..MaxArticles]

\* What DDGS does for a direct call of a WebSearchTool operation: as above,
\* or it yields n results of which one is malformed.
ToolDdgsOutcomes ==
  DdgsOutcomes \cup [kind : {"malformed"}, n : 1..MaxResults]

\* Categories a caller passes to get_news_by_category: in the vocabulary,
\* in the vocabulary once lower-cased, and outside it.
ToolCategories == {"technology", "Technology", "politics"}

\* What the chat chain does: raises, or answers.
ChainOutcomes == {"raises", "answers"}

\* -------------------------------------------------------------- state values
NoClassification ==
  [kind |-> "None", has_is_news |-> FALSE, is_news_request |-> FALSE,
   has_confidence |-> FALSE, confidence |-> 0]

NoNews == [kind |-> "None", status |-> "", message |-> "", articles |-> <<>>]
NoWeb == [kind |-> "None", status |-> "", message |-> "", results |-> <<>>]
NoMetadata == [has_confidence |-> FALSE, classification_confidence |-> 0]
NoLlmInput ==
  [sent |-> FALSE, enhanced |-> FALSE, context |-> <<>>, query |-> <<>>,
   history |-> <<>>]
NoNewsCall == [method |-> "None", category |-> "", query |-> <<>>]
NoCalls == [llm_classify |-> 0, news |-> 0, web |-> 0, llm_chat |-> 0]
NoReply ==
  [kind |-> "None", opening |-> <<>>, closed |-> FALSE,
   has_is_news |-> FALSE, is_news_request |-> FALSE,
   has_confidence |-> FALSE, confidence |-> 0]
\* No pair of invocations against fixed stubs is in progress.
NoFirst ==
  [round |-> 0, handles |-> <<"None", "None", "None">>,
   outcome |->
     [classifier |-> "None", news |-> "None", web |-> "None", chain |-> "None",
      reply |-> NoReply, news_n |-> 0, web_n |-> 0,
      agent_built |-> "None", fetcher_built |-> "None", tool_built |-> "None"],
   pc |-> "None", path |-> <<>>, classification |-> NoClassification,
   news |-> NoNews, web |-> NoWeb, final_response |-> "", error |-> "None",
   exc |-> "None"]
NoOutcome == NoFirst.outcome
\* The three module globals of nodes.py and the two invocations that use
\* them at the same time.
Collaborators == {"chatbot_agent", "news_fetcher", "web_search_tool"}
Threads == {"A", "B"}

\* An invocation that is in none of the getters. An instance is numbered by
\* the order of its construction; 0 is None.
IdleThread ==
  [pc |-> "idle", global |-> "None", instance |-> 0,
   got |-> [c \in Collaborators |-> 0]]

\* The globals are None, nothing has been constructed, nobody is in a getter.
NoGetters ==
  [handle |-> [c \in Collaborators |-> 0],
   constructed |-> [c \in Collaborators |-> 0],
   thread |-> [t \in Threads |-> IdleThread]]

\* No collaborator operation has been called directly.
NoToolCall ==
  [op |-> "None", category |-> "", query |-> <<>>, upstream |-> "None", n |-> 0,
   raised |-> FALSE, status |-> "", message |-> "", items |-> <<>>]
Apology == "I apologize, but I encountered an error"

VARIABLES
  pc,                   \* position of the invocation in the graph
  user_input,           \* GraphState.user_input
  chat_history,         \* GraphState.chat_history
  query_classification, \* GraphState.query_classification
  news_results,         \* GraphState.news_results
  web_search_results,   \* GraphState.web_search_results
  final_response,       \* GraphState.final_response
  error,                \* GraphState.error
  metadata,             \* GraphState.metadata
  chatbot_agent,        \* nodes.py module global
  news_fetcher,         \* nodes.py module global
  web_search_tool,      \* nodes.py module global
  caller_history,       \* the list object the caller passed to run_workflow
  path,                 \* nodes executed so far in this invocation
  calls,                \* external calls made so far in this invocation
  news_call,            \* which retriever method fetch_news_node called
  llm_input,            \* what the final synthesis step sent to the model
  outcome,              \* what each external call of this invocation did
  exc,                  \* exception that escaped run_workflow, or "None"
  messages,             \* app.py: st.session_state.messages
  first,                \* the first of two invocations against fixed stubs
  tool_log,             \* results of collaborator operations called directly
  getters               \* the module globals under two concurrent invocations

state == <<user_input, chat_history, query_classification, news_results,
           web_search_results, final_response, error, metadata>>
singletons == <<chatbot_agent, news_fetcher, web_search_tool>>
observed == <<caller_history, path, calls, news_call, llm_input, outcome, exc>>
harness == <<messages, first, tool_log, getters>>
vars == <<pc, state, singletons, observed, harness>>

\* ----------------------------------------------------------------- state.py
\* chat_history: Annotated[List[Dict[str, str]], operator.add]: the graph
\* engine folds the chat_history a node returns into the channel with +.
\* Every node returns the whole state, so it returns the list it was given.
ChatHistoryReducer(current, returned) == current \o returned

\* --------------------------------------------------------------- chatbot.py
\* NewsGenieAgent.classify_query: the parsed JSON value, or the default when
\* the model call or json.loads raised.
FallbackClassification ==
  [kind |-> "dict", has_is_news |-> TRUE, is_news_request |-> FALSE,
   has_confidence |-> TRUE, confidence |-> FallbackConfidence]

\* The tokens of response.content for a reply that returned text.
ReplyContent(reply) ==
  reply.opening \o <<reply.kind>> \o (IF reply.closed THEN <<Fence>> ELSE <<>>)

StartsWith(text, prefix) ==
  Len(text) >= Len(prefix) /\ SubSeq(text, 1, Len(prefix)) = prefix

EndsWith(text, suffix) ==
  Len(text) >= Len(suffix)
  /\ SubSeq(text, Len(text) - Len(suffix) + 1, Len(text)) = suffix

DropFirst(text, n) == SubSeq(text, n + 1, Len(text))

\* NewsGenieAgent.classify_query: removal of the markdown code fence.
StripFence(content) ==
  LET a == IF StartsWith(content, <<Fence, "json">>) THEN DropFirst(content, 2)
           ELSE content
      b == IF StartsWith(a, <<Fence>>) THEN DropFirst(a, 1) ELSE a
  IN  IF EndsWith(b, <<Fence>>) THEN SubSeq(b, 1, Len(b) - 1) ELSE b

\* json.loads on the stripped text: the value it returns, or "raises".
JsonLoads(content, reply) ==
  IF content = <<"json_object">>
  THEN [kind |-> "dict", has_is_news |-> reply.has_is_news,
        is_news_request |-> reply.is_news_request,
        has_confidence |-> reply.has_confidence,
        confidence |-> reply.confidence]
  ELSE IF content = <<"json_list">>
  THEN [kind |-> "list", has_is_news |-> FALSE, is_news_request |-> FALSE,
        has_confidence |-> FALSE, confidence |-> 0]
  ELSE [kind |-> "raises", has_is_news |-> FALSE, is_news_request |-> FALSE,
        has_confidence |-> FALSE, confidence |-> 0]

\* Variant of classify_query without the except branch for a parse failure.
classify_query_no_fallback(reply) ==
  IF reply.kind = "call_failed" THEN FallbackClassification
  ELSE JsonLoads(StripFence(ReplyContent(reply)), reply)

classify_query(reply) ==
  IF reply.kind = "call_failed" THEN FallbackClassification
  ELSE LET result == JsonLoads(StripFence(ReplyContent(reply)), reply)
       IN  IF result.kind = "raises" THEN FallbackClassification ELSE result

\* NewsGenieAgent.chat: the model's text, or the apology when the chain raised.
chat(chain) == IF chain = "raises" THEN Apology ELSE "answer"

\* NewsGenieAgent.format_chat_history: user turns become human messages,
\* assistant turns become AI messages, any other role is dropped.
FormatMessage(msg) ==
  [type |-> IF msg.role = "user" THEN "human" ELSE "ai", content |-> msg.content]

format_chat_history(turns) ==
  LET kept == SelectSeq(turns, LAMBDA m : m.role \in {"user", "assistant"})
  IN  [i \in 1..Len(kept) |-> FormatMessage(kept[i])]

\* ----------------------------------------------------------- news_fetcher.py
\* The error record every operation of NewsFetcher returns on failure.
NewsErrorResult(message) ==
  [kind |-> "dict", status |-> "error", message |-> message, articles |-> <<>>]

NewsError == NewsErrorResult("Failed to fetch news")

\* NewsFetcher._format_response raises on a response whose status is ok but
\* which holds an article it cannot read (its "source" is null, so
\* article.get("source", {}).get raises AttributeError).
NewsFormatRaises(api) == api.kind = "malformed"

\* NewsFetcher._format_response
NewsFormatResponse(api) ==
  IF api.kind = "not_ok" THEN NewsError
  ELSE [kind |-> "dict", status |-> "success", message |-> "Found articles",
        articles |-> [i \in 1..api.n |-> [source |-> "news", id |-> i]]]

\* Variant of get_top_headlines without its try/except.
get_top_headlines_no_except(api) ==
  IF api.kind = "raises" \/ NewsFormatRaises(api)
  THEN [kind |-> "raises", status |-> "", message |-> "", articles |-> <<>>]
  ELSE NewsFormatResponse(api)

\* NewsFetcher.get_top_headlines
get_top_headlines(api) ==
  IF api.kind = "raises" \/ NewsFormatRaises(api)
  THEN NewsErrorResult("Failed to fetch top headlines")
  ELSE NewsFormatResponse(api)

\* NewsFetcher.search_news
search_news(api) ==
  IF api.kind = "raises" \/ NewsFormatRaises(api)
  THEN NewsErrorResult("Failed to search news")
  ELSE NewsFormatResponse(api)

\* NewsFetcher.get_news_by_category
get_news_by_category(category, api) ==
  IF \A i \in 1..Len(news_categories) : news_categories[i] # Lower(category)
  THEN NewsErrorResult("Invalid category")
  ELSE get_top_headlines(api)

\* ------------------------------------------------------------- web_search.py
\* The error record every operation of WebSearchTool returns on failure.
WebErrorResult(message) ==
  [kind |-> "dict", status |-> "error", message |-> message, results |-> <<>>]

WebError == WebErrorResult("Search failed")

\* WebSearchTool._format_response raises on a result whose href has no
\* host part: href.split("/")[2] is an IndexError.
WebFormatRaises(ddgs) == ddgs.kind = "malformed"

\* WebSearchTool._format_response
WebFormatResponse(ddgs) ==
  [kind |-> "dict", status |-> "success",
   message |-> IF ddgs.n = 0 THEN "No results found" ELSE "Found results",
   results |-> [i \in 1..ddgs.n |-> [source |-> "web", id |-> i]]]

\* WebSearchTool._format_news_response: it reads every field with .get and
\* a default, so no result makes it raise.
WebFormatNewsResponse(ddgs) ==
  [kind |-> "dict", status |-> "success",
   message |-> IF ddgs.n = 0 THEN "No news found" ELSE "Found news articles",
   results |-> [i \in 1..ddgs.n |-> [source |-> "web_news", id |-> i]]]

\* WebSearchTool.search
search(ddgs) ==
  IF ddgs.kind = "raises" \/ WebFormatRaises(ddgs)
  THEN WebError
  ELSE WebFormatResponse(ddgs)

\* WebSearchTool.search_news
web_search_news(ddgs) ==
  IF ddgs.kind = "raises"
  THEN WebErrorResult("News search failed")
  ELSE WebFormatNewsResponse(ddgs)

\* ------------------------------------------------------------------ graph.py
\* Variant of should_fetch_news that looks at the confidence only.
should_fetch_news_confidence_only(classification) ==
  IF classification.kind # "dict" THEN "AttributeError"
  ELSE LET confidence == IF classification.has_confidence
                         THEN classification.confidence ELSE 0
       IN  IF confidence > ConfidenceThreshold
           THEN "fetch_news" ELSE "handle_general"

\* Variant of should_fetch_news that admits confidence equal to the threshold.
should_fetch_news_ge(classification) ==
  IF classification.kind # "dict" THEN "AttributeError"
  ELSE LET is_news == classification.has_is_news /\ classification.is_news_request
           confidence == IF classification.has_confidence
                         THEN classification.confidence ELSE 0
       IN  IF is_news /\ confidence >= ConfidenceThreshold
           THEN "fetch_news" ELSE "handle_general"

\* should_fetch_news: state.get("query_classification", {}) is the stored
\* value, None included (the key is present), and .get on a value that is no
\* dict raises AttributeError.
should_fetch_news(classification) ==
  IF classification.kind # "dict" THEN "AttributeError"
  ELSE LET is_news == classification.has_is_news /\ classification.is_news_request
           confidence == IF classification.has_confidence
                         THEN classification.confidence ELSE 0
       IN  IF is_news /\ confidence > ConfidenceThreshold
           THEN "fetch_news" ELSE "handle_general"

\* Variant of should_add_web_search that always adds the web search.
should_add_web_search_always(news) ==
  IF news.kind # "dict" THEN "AttributeError" ELSE "web_search"

\* Variant of should_add_web_search that sends a failed fetch back to
\* fetch_news.
should_add_web_search_retry(news) ==
  IF news.kind # "dict" THEN "AttributeError"
  ELSE IF news.status = "error" THEN "fetch_news"
  ELSE IF Len(news.articles) < MinArticles THEN "web_search"
  ELSE "generate_response"

\* Variant of should_add_web_search that also falls back at exactly three
\* articles.
should_add_web_search_le(news) ==
  IF news.kind # "dict" THEN "AttributeError"
  ELSE IF news.status = "error" THEN "web_search"
  ELSE IF Len(news.articles) <= MinArticles THEN "web_search"
  ELSE "generate_response"

\* should_add_web_search: state.get("news_results", {}) is the stored value,
\* None included, and None.get raises AttributeError.
should_add_web_search(news) ==
  IF news.kind # "dict" THEN "AttributeError"
  ELSE IF news.status = "error" THEN "web_search"
  ELSE IF Len(news.articles) < MinArticles THEN "web_search"
  ELSE "generate_response"

\* ------------------------------------------------------------------ nodes.py
\* get_chatbot_agent / get_news_fetcher / get_web_search_tool: the module
\* global after the call, given whether a needed construction succeeds.
SingletonAfter(handle, instance, built) ==
  IF handle = "None" THEN (IF built THEN instance ELSE "None") ELSE handle

\* Variant of GetSingleton that returns only from inside the "is None" branch.
GetSingleton_return_in_if(handle, instance, built) ==
  IF handle = "None" THEN (IF built THEN instance ELSE "None") ELSE "None"

\* get_chatbot_agent / get_news_fetcher / get_web_search_tool: the object the
\* node gets to work with: the global, constructed first when it was None;
\* "None" stands for the constructor raising into the node's except branch.
GetSingleton(handle, instance, built) ==
  IF handle = "None" THEN (IF built THEN instance ELSE "None") ELSE handle

\* Variant of CallerListAfterNode in which the reducer extends the caller's
\* list in place.
CallerListAfterNode_in_place(caller, returned) == caller \o returned

\* state.py, chat_history: the list object the caller handed to run_workflow
\* after a node returned: the reducer computes current + returned, a new
\* list, so the caller's list is not touched.
CallerListAfterNode(caller, returned) == caller

\* "cat in query_lower" for one lower-cased word of the query: Python's
\* substring test, over the words of the model.
IsSubstring(cat, word) == word = cat \/ (cat = "sports" /\ word = "esports")

\* fetch_news_node: "cat in query_lower" for a category and a query.
CategoryInQuery(cat, query) ==
  \E i \in 1..Len(query) : IsSubstring(cat, Lower(query[i]))

\* Variant of ExtractCategory that takes the category of the leftmost word
\* of the query that holds one.
ExtractCategory_by_position(query) ==
  LET at == {i \in 1..Len(query) :
               \E c \in 1..Len(news_categories) :
                 IsSubstring(news_categories[c], Lower(query[i]))}
  IN  IF at = {} THEN "None"
      ELSE LET w == CHOOSE i \in at : \A j \in at : i <= j
           IN  news_categories[CHOOSE c \in 1..Len(news_categories) :
                                 IsSubstring(news_categories[c], Lower(query[w]))]

\* fetch_news_node: the first category of settings.news_categories found in
\* the query, or "None".
ExtractCategory(query) ==
  LET hits == {i \in 1..Len(news_categories) : CategoryInQuery(news_categories[i], query)}
  IN  IF hits = {} THEN "None"
      ELSE news_categories[CHOOSE i \in hits : \A j \in hits : i <= j]

\* generate_response_node: "if news_results", "if web_results" (a result
\* dict always has keys, so it is truthy; None is not).
Truthy(result) == result.kind = "dict"

\* Variant of NewsContextParts that lists every article.
NewsContextParts_unlimited(news) ==
  IF Truthy(news) /\ news.status = "success" /\ Len(news.articles) > 0
  THEN <<[part |-> "header", source |-> "news", n |-> 0, id |-> 0]>> \o
       [i \in 1..Len(news.articles) |->
          [part |-> "item", source |-> "news", n |-> i, id |-> news.articles[i].id]]
  ELSE <<>>

\* generate_response_node: the news part of context_parts.
NewsContextParts(news) ==
  IF Truthy(news) /\ news.status = "success" /\ Len(news.articles) > 0
  THEN <<[part |-> "header", source |-> "news", n |-> 0, id |-> 0]>> \o
       [i \in 1..Min(NewsContextLimit, Len(news.articles)) |->
          [part |-> "item", source |-> "news", n |-> i, id |-> news.articles[i].id]]
  ELSE <<>>

\* Variant of WebContextParts without the "and not news_results" test.
WebContextParts_no_priority(news, web) ==
  IF Truthy(web) /\ web.status = "success" /\ Len(web.results) > 0
  THEN <<[part |-> "header", source |-> "web", n |-> 0, id |-> 0]>> \o
       [i \in 1..Min(WebContextLimit, Len(web.results)) |->
          [part |-> "item", source |-> "web", n |-> i, id |-> web.results[i].id]]
  ELSE <<>>

\* generate_response_node: the web part of context_parts.
WebContextParts(news, web) ==
  IF Truthy(web) /\ web.status = "success" /\ Len(web.results) > 0 /\ ~Truthy(news)
  THEN <<[part |-> "header", source |-> "web", n |-> 0, id |-> 0]>> \o
       [i \in 1..Min(WebContextLimit, Len(web.results)) |->
          [part |-> "item", source |-> "web", n |-> i, id |-> web.results[i].id]]
  ELSE <<>>

\* generate_response_node: context_parts.
context_parts(news, web) == NewsContextParts(news) \o WebContextParts(news, web)

\* Variant of ErrorAfterNode in which a node that caught nothing clears the
\* field.
ErrorAfterNode_cleared(before, caught) == caught

\* The error field of the state a node returns: the text its except branch
\* stored when it caught an exception ("None": it caught none), and
\* otherwise the value the node was handed; no node assigns None to it.
ErrorAfterNode(before, caught) == IF caught # "None" THEN caught ELSE before

\* handle_general_query_node: the text passed to agent.chat is user_input.
RawInput(query) == [enhanced |-> FALSE, context |-> <<>>, query |-> query]

\* Variant of enhanced_input that wraps the query in the instruction frame
\* whether or not there is context.
enhanced_input_always_framed(context, query) ==
  [enhanced |-> TRUE, context |-> context, query |-> query]

\* generate_response_node: enhanced_input, the text passed to agent.chat:
\* with context, the instruction frame holding the context followed by the
\* query; without, user_input itself.
enhanced_input(context, query) ==
  IF context # <<>>
  THEN [enhanced |-> TRUE, context |-> context, query |-> query]
  ELSE RawInput(query)

\* agent.chat(text, formatted_history) as the model sees it.
ChatCall(text, history) ==
  [sent |-> TRUE, enhanced |-> text.enhanced, context |-> text.context,
   query |-> text.query, history |-> history]

\* Variant of WebSearchNodeResults whose except branch records nothing.
WebSearchNodeResults_unrecorded(tool, ddgs) ==
  IF tool = "None" THEN NoWeb ELSE search(ddgs)

\* web_search_node: what the node stores in web_search_results: the tool's
\* answer, or the error record of its except branch when the tool could not
\* be constructed (search itself never raises).
WebSearchNodeResults(tool, ddgs) ==
  IF tool = "None" THEN WebErrorResult("str(e)") ELSE search(ddgs)

\* run_workflow up to workflow.invoke: a fresh initial state.
StartInvocation(query, history) ==
  /\ user_input' = query
  /\ chat_history' = ChatHistoryReducer(<<>>, history)
  /\ query_classification' = NoClassification
  /\ news_results' = NoNews
  /\ web_search_results' = NoWeb
  /\ final_response' = ""
  /\ error' = "None"
  /\ metadata' = NoMetadata
  /\ path' = <<>>
  /\ calls' = NoCalls
  /\ news_call' = NoNewsCall
  /\ llm_input' = NoLlmInput
  /\ outcome' = NoOutcome
  /\ exc' = "None"
  /\ pc' = "classify_query"
  /\ UNCHANGED singletons

\* A caller invokes run_workflow with a query and a history list.
run_workflow ==
  /\ pc = "idle"
  /\ \E query \in Queries, history \in Histories :
       /\ StartInvocation(query, history)
       /\ caller_history' = history
  /\ UNCHANGED harness

ClassifyQueryNode(built, reply) ==
  /\ pc = "classify_query"
  /\
       LET agent == GetSingleton(chatbot_agent, "NewsGenieAgent", built)
           classification == classify_query(reply)
       IN  /\ chatbot_agent' = SingletonAfter(chatbot_agent, "NewsGenieAgent", built)
           /\ IF agent = "None"
              THEN /\ error' = ErrorAfterNode(error, "Classification error")
                   /\ outcome' = [outcome EXCEPT !.agent_built = "no"]
                   /\ UNCHANGED <<query_classification, metadata, calls>>
              ELSE /\ calls' = [calls EXCEPT !.llm_classify = @ + 1]
                   /\ outcome' =
                        [outcome EXCEPT
                           !.classifier = reply.kind, !.reply = reply]
                   /\ query_classification' = classification
                   /\ metadata' =
                        IF classification.kind = "dict"
                        THEN [has_confidence |-> TRUE,
                              classification_confidence |->
                                IF classification.has_confidence
                                THEN classification.confidence ELSE 0]
                        ELSE metadata
                   /\ error' =
                        ErrorAfterNode(error,
                          IF classification.kind = "dict"
                             /\ classification.has_is_news
                             /\ classification.has_confidence
                          THEN "None" ELSE "Classification error")
  /\ chat_history' = ChatHistoryReducer(chat_history, chat_history)
  /\ caller_history' = CallerListAfterNode(caller_history, chat_history)
  /\ path' = Append(path, "classify_query")
  /\ pc' = "should_fetch_news"
  /\ UNCHANGED <<user_input, news_results, web_search_results, final_response,
                 news_fetcher, web_search_tool, news_call, llm_input, exc,
                 harness>>

classify_query_node ==
  \E built \in BOOLEAN, reply \in ClassifierReplies :
    ClassifyQueryNode(built, reply)

\* The conditional edge out of classify_query.
classify_query_edge ==
  /\ pc = "should_fetch_news"
  /\ LET next == should_fetch_news(query_classification)
     IN  IF next = "AttributeError"
         THEN pc' = "raised" /\ exc' = "AttributeError"
         ELSE pc' = next /\ exc' = exc
  /\ UNCHANGED <<state, singletons, caller_history, path, calls, news_call,
                 llm_input, outcome, harness>>

FetchNewsNode(built, api) ==
  /\ pc = "fetch_news"
  /\
       LET fetcher == GetSingleton(news_fetcher, "NewsFetcher", built)
           category == ExtractCategory(user_input)
       IN  /\ news_fetcher' = SingletonAfter(news_fetcher, "NewsFetcher", built)
           /\ IF fetcher = "None"
              THEN /\ error' = ErrorAfterNode(error, "News fetch error")
                   /\ outcome' = [outcome EXCEPT !.fetcher_built = "no"]
                   /\ UNCHANGED <<news_results, calls, news_call>>
              ELSE /\ calls' = [calls EXCEPT !.news = @ + 1]
                   /\ outcome' =
                        [outcome EXCEPT
                           !.news = api.kind, !.news_n = api.n]
                   /\ news_call' =
                        IF category # "None"
                        THEN [method |-> "get_news_by_category",
                              category |-> category, query |-> <<>>]
                        ELSE [method |-> "search_news", category |-> "",
                              query |-> user_input]
                   /\ news_results' =
                        IF category # "None"
                        THEN get_news_by_category(category, api)
                        ELSE search_news(api)
                   /\ error' = ErrorAfterNode(error, "None")
  /\ chat_history' = ChatHistoryReducer(chat_history, chat_history)
  /\ caller_history' = CallerListAfterNode(caller_history, chat_history)
  /\ path' = Append(path, "fetch_news")
  /\ pc' = "should_add_web_search"
  /\ UNCHANGED <<user_input, query_classification, web_search_results,
                 final_response, metadata, chatbot_agent, web_search_tool,
                 llm_input, exc, harness>>

fetch_news_node ==
  \E built \in BOOLEAN, api \in NewsApiOutcomes :
    FetchNewsNode(built, api)

\* The conditional edge out of fetch_news.
fetch_news_edge ==
  /\ pc = "should_add_web_search"
  /\ LET next == should_add_web_search(news_results)
     IN  IF next = "AttributeError"
         THEN pc' = "raised" /\ exc' = "AttributeError"
         ELSE pc' = next /\ exc' = exc
  /\ UNCHANGED <<state, singletons, caller_history, path, calls, news_call,
                 llm_input, outcome, harness>>

WebSearchNode(built, ddgs) ==
  /\ pc = "web_search"
  /\
       LET tool == GetSingleton(web_search_tool, "WebSearchTool", built)
       IN  /\ web_search_tool' = SingletonAfter(web_search_tool, "WebSearchTool", built)
           /\ IF tool = "None"
              THEN /\ outcome' = [outcome EXCEPT !.tool_built = "no"]
                   /\ UNCHANGED calls
              ELSE /\ calls' = [calls EXCEPT !.web = @ + 1]
                   /\ outcome' =
                        [outcome EXCEPT
                           !.web = ddgs.kind, !.web_n = ddgs.n]
           /\ web_search_results' = WebSearchNodeResults(tool, ddgs)
  /\ error' = ErrorAfterNode(error, "None")
  /\ chat_history' = ChatHistoryReducer(chat_history, chat_history)
  /\ caller_history' = CallerListAfterNode(caller_history, chat_history)
  /\ path' = Append(path, "web_search")
  /\ pc' = "generate_response"
  /\ UNCHANGED <<user_input, query_classification, news_results, final_response,
                 metadata, chatbot_agent, news_fetcher, news_call, llm_input,
                 exc, harness>>

web_search_node ==
  \E built \in BOOLEAN, ddgs \in DdgsOutcomes :
    WebSearchNode(built, ddgs)

GenerateResponseNode(built, chain) ==
  /\ pc = "generate_response"
  /\
       LET agent == GetSingleton(chatbot_agent, "NewsGenieAgent", built)
           context == context_parts(news_results, web_search_results)
       IN  /\ chatbot_agent' = SingletonAfter(chatbot_agent, "NewsGenieAgent", built)
           /\ IF agent = "None"
              THEN /\ error' = ErrorAfterNode(error, "Response generation error")
                   /\ final_response' = Apology
                   /\ outcome' = [outcome EXCEPT !.agent_built = "no"]
                   /\ UNCHANGED <<calls, llm_input>>
              ELSE /\ llm_input' =
                        ChatCall(enhanced_input(context, user_input),
                                 format_chat_history(chat_history))
                   /\ calls' = [calls EXCEPT !.llm_chat = @ + 1]
                   /\ outcome' =
                        [outcome EXCEPT
                           !.chain = chain]
                   /\ final_response' = chat(chain)
                   /\ error' = ErrorAfterNode(error, "None")
  /\ chat_history' = ChatHistoryReducer(chat_history, chat_history)
  /\ caller_history' = CallerListAfterNode(caller_history, chat_history)
  /\ path' = Append(path, "generate_response")
  /\ pc' = "END"
  /\ UNCHANGED <<user_input, query_classification, news_results,
                 web_search_results, metadata, news_fetcher, web_search_tool,
                 news_call, exc, harness>>

generate_response_node ==
  \E built \in BOOLEAN, chain \in ChainOutcomes :
    GenerateResponseNode(built, chain)

HandleGeneralQueryNode(built, chain) ==
  /\ pc = "handle_general"
  /\
       LET agent == GetSingleton(chatbot_agent, "NewsGenieAgent", built)
       IN  /\ chatbot_agent' = SingletonAfter(chatbot_agent, "NewsGenieAgent", built)
           /\ IF agent = "None"
              THEN /\ error' = ErrorAfterNode(error, "General query error")
                   /\ final_response' = Apology
                   /\ outcome' = [outcome EXCEPT !.agent_built = "no"]
                   /\ UNCHANGED <<calls, llm_input>>
              ELSE /\ llm_input' =
                        ChatCall(RawInput(user_input),
                                 format_chat_history(chat_history))
                   /\ calls' = [calls EXCEPT !.llm_chat = @ + 1]
                   /\ outcome' =
                        [outcome EXCEPT
                           !.chain = chain]
                   /\ final_response' = chat(chain)
                   /\ error' = ErrorAfterNode(error, "None")
  /\ chat_history' = ChatHistoryReducer(chat_history, chat_history)
  /\ caller_history' = CallerListAfterNode(caller_history, chat_history)
  /\ path' = Append(path, "handle_general")
  /\ pc' = "END"
  /\ UNCHANGED <<user_input, query_classification, news_results,
                 web_search_results, metadata, news_fetcher, web_search_tool,
                 news_call, exc, harness>>

handle_general_query_node ==
  \E built \in BOOLEAN, chain \in ChainOutcomes :
    HandleGeneralQueryNode(built, chain)

\* The invocation's state dict and what was observed of it are dropped; the
\* module globals stay.
DropInvocation ==
  /\ pc' = "idle"
  /\ user_input' = <<>>
  /\ chat_history' = <<>>
  /\ query_classification' = NoClassification
  /\ news_results' = NoNews
  /\ web_search_results' = NoWeb
  /\ final_response' = ""
  /\ error' = "None"
  /\ metadata' = NoMetadata
  /\ path' = <<>>
  /\ calls' = NoCalls
  /\ news_call' = NoNewsCall
  /\ llm_input' = NoLlmInput
  /\ outcome' = NoOutcome
  /\ exc' = "None"
  /\ UNCHANGED singletons

\* The caller is done with the invocation: it has the returned state, or has
\* caught the exception, and lets go of its history list.
caller_done ==
  /\ pc \in {"END", "raised"}
  /\ DropInvocation
  /\ caller_history' = <<>>
  /\ UNCHANGED harness

\* ------------------------------------------------------------------- app.py
\* The text process_user_input shows and stores for a returned state: the
\* final response, behind a warning line when the state carries an error.
ResponseText(response, err) ==
  IF err # "None" THEN <<"warning", err, response>> ELSE <<response>>

\* Variant of HistoryAfterException that stores the failed exchange.
HistoryAfterException_appends(history, query, error_msg) ==
  history \o <<[role |-> "user", content |-> query],
               [role |-> "assistant", content |-> error_msg]>>

\* process_user_input, except branch: st.session_state.chat_history after
\* it; the branch appends to messages only.
HistoryAfterException(history, query, error_msg) == history

\* Variant of MessagesAfterException that shows the error without storing it.
MessagesAfterException_unstored(shown, error_msg) == shown

\* process_user_input, except branch: st.session_state.messages after it.
MessagesAfterException(shown, error_msg) ==
  Append(shown, [role |-> "assistant", content |-> error_msg])

\* process_user_input up to the call of run_workflow: the user message is
\* appended to messages, and the workflow is invoked with the session's
\* history list.
process_user_input ==
  /\ pc = "idle"
  /\ Len(messages) < 2 * MaxTurns
  /\ \E query \in SessionQueries :
       /\ messages' = Append(messages, [role |-> "user", content |-> query])
       /\ StartInvocation(query, caller_history)
  /\ UNCHANGED <<caller_history, first, tool_log, getters>>

\* process_user_input after run_workflow returned.
process_user_input_return ==
  /\ pc = "END"
  /\ LET response == ResponseText(final_response, error)
     IN  /\ messages' =
              Append(messages, [role |-> "assistant", content |-> response])
         /\ caller_history' =
              Append(Append(caller_history,
                            [role |-> "user", content |-> user_input]),
                     [role |-> "assistant", content |-> response])
  /\ DropInvocation
  /\ UNCHANGED <<first, tool_log, getters>>

\* process_user_input after run_workflow raised.
process_user_input_except ==
  /\ pc = "raised"
  /\ LET error_msg == <<"An error occurred", exc>>
     IN  /\ messages' = MessagesAfterException(messages, error_msg)
         /\ caller_history' =
              HistoryAfterException(caller_history, user_input, error_msg)
  /\ DropInvocation
  /\ UNCHANGED <<first, tool_log, getters>>

\* The "Clear Chat History" button.
clear_chat_history ==
  /\ pc = "idle"
  /\ messages' = <<>>
  /\ caller_history' = <<>>
  /\ UNCHANGED <<pc, state, singletons, path, calls, news_call, llm_input,
                 outcome, exc, first, tool_log, getters>>

Init ==
  /\ pc = "idle"
  /\ user_input = <<>>
  /\ chat_history = <<>>
  /\ query_classification = NoClassification
  /\ news_results = NoNews
  /\ web_search_results = NoWeb
  /\ final_response = ""
  /\ error = "None"
  /\ metadata = NoMetadata
  /\ chatbot_agent = "None"
  /\ news_fetcher = "None"
  /\ web_search_tool = "None"
  /\ caller_history = <<>>
  /\ path = <<>>
  /\ calls = NoCalls
  /\ news_call = NoNewsCall
  /\ llm_input = NoLlmInput
  /\ outcome = NoOutcome
  /\ exc = "None"
  /\ messages = <<>>
  /\ first = NoFirst
  /\ tool_log = NoToolCall
  /\ getters = NoGetters

Next ==
  \/ run_workflow
  \/ classify_query_node
  \/ classify_query_edge
  \/ fetch_news_node
  \/ fetch_news_edge
  \/ web_search_node
  \/ generate_response_node
  \/ handle_general_query_node
  \/ caller_done

Spec == Init /\ [][Next]_vars

\* workflow.invoke runs the graph synchronously: once an invocation has
\* started, the node or router that is due is executed, provided the
\* collaborator calls inside it return. Whether a caller ever starts an
\* invocation is left open.
LiveSpec ==
  /\ Spec
  /\ WF_vars(classify_query_node)
  /\ WF_vars(classify_query_edge)
  /\ WF_vars(fetch_news_node)
  /\ WF_vars(fetch_news_edge)
  /\ WF_vars(web_search_node)
  /\ WF_vars(generate_response_node)
  /\ WF_vars(handle_general_query_node)

\* ------------------------------------------- two invocations, fixed stubs
\* A stubbed environment answers the second invocation as it answered the
\* first: a constructor that raised raises again, and a call that was made
\* gets the same answer.
SameConstruction(built, before) == built = (before # "no")

\* The first of two invocations with one query and an empty history.
first_invocation ==
  /\ pc = "idle"
  /\ first.round = 0
  /\ \E query \in StubQueries : StartInvocation(query, <<>>)
  /\ caller_history' = <<>>
  /\ first' = [NoFirst EXCEPT !.round = 1,
                !.handles = <<chatbot_agent, news_fetcher, web_search_tool>>]
  /\ UNCHANGED <<messages, tool_log, getters>>

\* The first invocation is over; its terminal state is kept for comparison
\* and the same query is run again in the same process.
second_invocation ==
  /\ pc \in {"END", "raised"}
  /\ first.round = 1
  /\ first' = [first EXCEPT
                !.round = 2, !.outcome = outcome, !.pc = pc, !.path = path,
                !.classification = query_classification,
                !.news = news_results, !.web = web_search_results,
                !.final_response = final_response, !.error = error,
                !.exc = exc]
  /\ StartInvocation(user_input, <<>>)
  /\ caller_history' = <<>>
  /\ UNCHANGED <<messages, tool_log, getters>>

stub_classify_query_node ==
  /\ first.round \in {1, 2}
  /\ \E built \in BOOLEAN, reply \in ClassifierReplies :
       /\ first.round = 2 =>
            /\ SameConstruction(built, first.outcome.agent_built)
            /\ first.outcome.classifier # "None" => reply = first.outcome.reply
       /\ ClassifyQueryNode(built, reply)

stub_fetch_news_node ==
  /\ first.round \in {1, 2}
  /\ \E built \in BOOLEAN, api \in NewsApiOutcomes :
       /\ first.round = 2 =>
            /\ SameConstruction(built, first.outcome.fetcher_built)
            /\ first.outcome.news # "None" =>
                 api = [kind |-> first.outcome.news, n |-> first.outcome.news_n]
       /\ FetchNewsNode(built, api)

stub_web_search_node ==
  /\ first.round \in {1, 2}
  /\ \E built \in BOOLEAN, ddgs \in DdgsOutcomes :
       /\ first.round = 2 =>
            /\ SameConstruction(built, first.outcome.tool_built)
            /\ first.outcome.web # "None" =>
                 ddgs = [kind |-> first.outcome.web, n |-> first.outcome.web_n]
       /\ WebSearchNode(built, ddgs)

stub_generate_response_node ==
  /\ first.round \in {1, 2}
  /\ \E built \in BOOLEAN, chain \in ChainOutcomes :
       /\ first.round = 2 =>
            /\ SameConstruction(built, first.outcome.agent_built)
            /\ first.outcome.chain # "None" => chain = first.outcome.chain
       /\ GenerateResponseNode(built, chain)

stub_handle_general_query_node ==
  /\ first.round \in {1, 2}
  /\ \E built \in BOOLEAN, chain \in ChainOutcomes :
       /\ first.round = 2 =>
            /\ SameConstruction(built, first.outcome.agent_built)
            /\ first.outcome.chain # "None" => chain = first.outcome.chain
       /\ HandleGeneralQueryNode(built, chain)

\* Both invocations are over.
stub_done ==
  /\ pc \in {"END", "raised"}
  /\ first.round = 2
  /\ DropInvocation
  /\ caller_history' = <<>>
  /\ first' = NoFirst
  /\ UNCHANGED <<messages, tool_log, getters>>

StubNext ==
  \/ first_invocation
  \/ stub_classify_query_node
  \/ classify_query_edge
  \/ stub_fetch_news_node
  \/ fetch_news_edge
  \/ stub_web_search_node
  \/ stub_generate_response_node
  \/ stub_handle_general_query_node
  \/ second_invocation
  \/ stub_done

StubSpec == Init /\ [][StubNext]_vars

\* ------------------------------------------ collaborators called directly
\* What a caller of one collaborator operation sees: the arguments, what the
\* underlying API did, and the record that came back (or that the call
\* raised).
ToolCall(op, category, query, upstream, result, items) ==
  [op |-> op, category |-> category, query |-> query,
   upstream |-> upstream.kind, n |-> upstream.n,
   raised |-> result.kind # "dict", status |-> result.status,
   message |-> result.message, items |-> items]

call_get_top_headlines ==
  /\ \E api \in ToolNewsOutcomes :
       LET result == get_top_headlines(api)
       IN  tool_log' = ToolCall("get_top_headlines", "", <<>>, api, result,
                                result.articles)
  /\ UNCHANGED <<pc, state, singletons, observed, messages, first,
                 getters>>

call_search_news ==
  /\ \E query \in SessionQueries, api \in ToolNewsOutcomes :
       LET result == search_news(api)
       IN  tool_log' = ToolCall("search_news", "", query, api, result,
                                result.articles)
  /\ UNCHANGED <<pc, state, singletons, observed, messages, first,
                 getters>>

call_get_news_by_category ==
  /\ \E category \in ToolCategories, api \in ToolNewsOutcomes :
       LET result == get_news_by_category(category, api)
       IN  tool_log' = ToolCall("get_news_by_category", category, <<>>, api,
                                result, result.articles)
  /\ UNCHANGED <<pc, state, singletons, observed, messages, first,
                 getters>>

call_web_search ==
  /\ \E query \in SessionQueries, ddgs \in ToolDdgsOutcomes :
       LET result == search(ddgs)
       IN  tool_log' = ToolCall("web_search", "", query, ddgs, result,
                                result.results)
  /\ UNCHANGED <<pc, state, singletons, observed, messages, first,
                 getters>>

call_web_search_news ==
  /\ \E query \in SessionQueries, ddgs \in ToolDdgsOutcomes :
       LET result == web_search_news(ddgs)
       IN  tool_log' = ToolCall("web_search_news", "", query, ddgs, result,
                                result.results)
  /\ UNCHANGED <<pc, state, singletons, observed, messages, first,
                 getters>>

ToolNext ==
  \/ call_get_top_headlines
  \/ call_search_news
  \/ call_get_news_by_category
  \/ call_web_search
  \/ call_web_search_news

ToolSpec == Init /\ [][ToolNext]_vars

\* ------------------------------------- the getters under two invocations
\* Variant of StillConstructs in which the handle is looked at again under a
\* lock before constructing.
StillConstructs_rechecked(seen_none, handle_now) == seen_none /\ handle_now = 0

\* get_chatbot_agent / get_news_fetcher / get_web_search_tool: whether an
\* invocation that found the global None at its "is None" test goes on to
\* construct: it does, the global is not looked at again and there is no
\* lock.
StillConstructs(seen_none, handle_now) == seen_none

\* An invocation calls one of the three getters.
getter_call(t) ==
  /\ getters.thread[t].pc = "idle"
  /\ \E c \in Collaborators :
       getters' = [getters EXCEPT !.thread[t].pc = "test",
                                  !.thread[t].global = c]
  /\ UNCHANGED <<pc, state, singletons, observed, messages, first, tool_log>>

\* "if <global> is None:" reads the global.
getter_test(t) ==
  /\ getters.thread[t].pc = "test"
  /\ getters' =
       [getters EXCEPT !.thread[t].pc =
          IF getters.handle[getters.thread[t].global] = 0
          THEN "construct" ELSE "return"]
  /\ UNCHANGED <<pc, state, singletons, observed, messages, first, tool_log>>

\* The constructor call on the right of the assignment: it returns a new
\* instance, or it raises and the getter is left with the global as it is.
getter_construct(t) ==
  /\ getters.thread[t].pc = "construct"
  /\ LET c == getters.thread[t].global
     IN  IF StillConstructs(TRUE, getters.handle[c])
         THEN \E built \in BOOLEAN :
                getters' =
                  IF built
                  THEN [getters EXCEPT
                          !.constructed[c] = @ + 1,
                          !.thread[t].instance = getters.constructed[c] + 1,
                          !.thread[t].pc = "assign"]
                  ELSE [getters EXCEPT !.thread[t] =
                          [IdleThread EXCEPT !.got = getters.thread[t].got]]
         ELSE getters' = [getters EXCEPT !.thread[t].pc = "return"]
  /\ UNCHANGED <<pc, state, singletons, observed, messages, first, tool_log>>

\* The assignment to the global.
getter_assign(t) ==
  /\ getters.thread[t].pc = "assign"
  /\ getters' =
       [getters EXCEPT
          !.handle[getters.thread[t].global] = getters.thread[t].instance,
          !.thread[t].pc = "return"]
  /\ UNCHANGED <<pc, state, singletons, observed, messages, first, tool_log>>

\* "return <global>" reads the global again.
getter_return(t) ==
  /\ getters.thread[t].pc = "return"
  /\ LET c == getters.thread[t].global
     IN  getters' =
           [getters EXCEPT !.thread[t] =
              [IdleThread EXCEPT
                 !.got = [getters.thread[t].got EXCEPT ![c] = getters.handle[c]]]]
  /\ UNCHANGED <<pc, state, singletons, observed, messages, first, tool_log>>

RaceNext ==
  \E t \in Threads :
    \/ getter_call(t)
    \/ getter_test(t)
    \/ getter_construct(t)
    \/ getter_assign(t)
    \/ getter_return(t)

RaceSpec == Init /\ [][RaceNext]_vars

\* The Streamlit session: user turns processed one after the other, each
\* through the workflow, and the clear button.
SessionNext ==
  \/ process_user_input
  \/ classify_query_node
  \/ classify_query_edge
  \/ fetch_news_node
  \/ fetch_news_edge
  \/ web_search_node
  \/ generate_response_node
  \/ handle_general_query_node
  \/ process_user_input_return
  \/ process_user_input_except
  \/ clear_chat_history

SessionSpec == Init /\ [][SessionNext]_vars

\* ===================================================================== claims
Last(seq) == seq[Len(seq)]

\* The invocation is over: run_workflow returned (END) or raised.
Finished == pc \in {"END", "raised"}

\* generate_response_node ran and sent its prompt to the model.
Responded ==
  /\ pc = "END"
  /\ Len(path) > 0
  /\ Last(path) = "generate_response"
  /\ llm_input.sent

\* C1: when the router evaluates the edge out of Classify on a classification
\* record, it goes to fetch_news exactly when the record has is_news_request
\* true and a confidence strictly above 0.6 (6 tenths), and to handle_general
\* in every other case, confidence exactly 0.6 included.
C1_NewsIffConfident ==
  [][(pc = "should_fetch_news" /\ query_classification.kind = "dict") =>
       LET qualifies == /\ query_classification.has_is_news
                        /\ query_classification.is_news_request
                        /\ query_classification.has_confidence
                        /\ query_classification.confidence > 6
       IN  /\ qualifies => pc' = "fetch_news"
           /\ ~qualifies => pc' = "handle_general"]_vars

\* C1 witness: a news classification with confidence exactly 0.6 was routed
\* to handle_general.
C1_Witness ==
  /\ pc = "handle_general"
  /\ query_classification.kind = "dict"
  /\ query_classification.is_news_request
  /\ query_classification.confidence = 6

\* C2: when the router evaluates the edge out of FetchNews on a news result,
\* it goes to web_search exactly when the result has status error or fewer
\* than 3 articles, and to generate_response otherwise; and once the news
\* result is a success with 3 or more articles, web search is never invoked.
C2_FallbackIffSparse ==
  /\ [][(pc = "should_add_web_search" /\ news_results.kind = "dict") =>
          LET sparse == \/ news_results.status = "error"
                        \/ Len(news_results.articles) < 3
          IN  /\ sparse => pc' = "web_search"
              /\ ~sparse => pc' = "generate_response"]_vars
  /\ []((news_results.status = "success" /\ Len(news_results.articles) >= 3) =>
          /\ pc # "web_search"
          /\ calls.web = 0
          /\ web_search_results.kind = "None"
          /\ \A i \in 1..Len(path) : path[i] # "web_search")

\* C2 witness: a successful fetch of exactly 2 articles was routed to
\* web_search.
C2_Witness ==
  /\ pc = "web_search"
  /\ news_results.status = "success"
  /\ Len(news_results.articles) = 2

\* C3: run_workflow never raises to its caller (stated as: no invocation
\* ends with an escaped exception).
C3_NeverRaises == pc # "raised" /\ exc = "None"

\* C4: when Classify caught an exception (error set, query_classification
\* still None), the router goes to handle_general.
C4_ClassifyErrorRoutesGeneral ==
  [][(/\ pc = "should_fetch_news"
      /\ error # "None"
      /\ query_classification.kind = "None") => pc' = "handle_general"]_vars

\* C5: when FetchNews caught an exception, the invocation does not raise, and
\* when it has ended error is set and final_response is the apology.
C5_FetchErrorEndsWithApology ==
  error = "News fetch error" =>
    /\ pc # "raised"
    /\ (pc = "END" => final_response = Apology)

\* C6: when the model call of the final synthesis step failed, the terminal
\* state has final_response equal to the apology and error set.
C6_ChatFailureSetsError ==
  (pc = "END" /\ outcome.chain = "raises") =>
    /\ final_response = Apology
    /\ error # "None"

\* C7: a step of WebSearchFallback always leads to generate_response, leaves
\* the pipeline error field as it was, and records a failure (the tool could
\* not be constructed, or the search raised) as an error-status web result
\* with no results.
C7_WebSearchAbsorbed ==
  [][pc = "web_search" =>
       LET failed == web_search_tool' = "None" \/ outcome'.web = "raises"
       IN  /\ pc' = "generate_response"
           /\ error' = error
           /\ web_search_results'.kind = "dict"
           /\ failed => /\ web_search_results'.status = "error"
                        /\ web_search_results'.results = <<>>
           /\ ~failed => web_search_results'.status = "success"]_vars

\* C7 witness: web search ran, its tool could not be constructed, and the
\* invocation is at generate_response with an error-status web result.
C7_Witness ==
  /\ pc = "generate_response"
  /\ Len(path) > 0
  /\ Last(path) = "web_search"
  /\ web_search_tool = "None"
  /\ web_search_results.status = "error"
  /\ error = "None"

\* C8: whenever the Responder ran, at most one source contributes items to
\* the context; and with a successful non-empty news result and a successful
\* non-empty web result the context holds news items and no web item.
C8_NewsPriority ==
  Responded =>
    LET ctx == llm_input.context
        from(src) == \E i \in 1..Len(ctx) : ctx[i].source = src
    IN  /\ ~(from("news") /\ from("web"))
        /\ (/\ news_results.status = "success"
            /\ Len(news_results.articles) > 0
            /\ web_search_results.status = "success"
            /\ Len(web_search_results.results) > 0)
           => (from("news") /\ ~from("web"))

\* C8 witness: the Responder ran with both a successful non-empty news result
\* and a successful non-empty web result.
C8_Witness ==
  /\ Responded
  /\ news_results.status = "success"
  /\ Len(news_results.articles) > 0
  /\ web_search_results.status = "success"
  /\ Len(web_search_results.results) > 0
  /\ llm_input.enhanced

\* C9: whenever the Responder ran with no usable news result (status error,
\* or success with no article) and a web result that succeeded with n >= 1
\* items, the context lists the first min(3, n) web items in order.
C9_WebContextUsed ==
  (/\ Responded
   /\ \/ news_results.status = "error"
      \/ (news_results.status = "success" /\ Len(news_results.articles) = 0)
   /\ web_search_results.status = "success"
   /\ Len(web_search_results.results) >= 1)
  =>
    LET n == Len(web_search_results.results)
        k == IF n < 3 THEN n ELSE 3
        items == SelectSeq(llm_input.context, LAMBDA p : p.part = "item")
    IN  /\ llm_input.enhanced
        /\ Len(items) = k
        /\ \A i \in 1..k : /\ items[i].source = "web"
                           /\ items[i].id = web_search_results.results[i].id

\* C10: the nodes an invocation executed are, once it is over, exactly one of
\* the three paths of the graph.
C10_OneOfThreePaths ==
  Finished =>
    path \in {<<"classify_query", "handle_general">>,
              <<"classify_query", "fetch_news", "generate_response">>,
              <<"classify_query", "fetch_news", "web_search", "generate_response">>}

\* C11 (as the specification states it): whenever run_workflow returns,
\* final_response is non-empty and is either the model's answer or the
\* user-facing error message accompanied by a set error field.
C11_ResponseOrReportedError ==
  pc = "END" =>
    /\ final_response # ""
    /\ \/ (outcome.chain = "answers" /\ final_response = "answer")
       \/ (final_response = Apology /\ error # "None")

\* C12: once the classification record does not qualify for the news path
\* (is_news_request not true, or confidence at most 0.6), the invocation
\* only ever is at the router, in handle_general or at the end; no call has
\* been made to the news retriever or to web search; news_results and
\* web_search_results are still null; and at the end the path is exactly
\* classify_query, handle_general.
C12_GeneralPathTouchesNoRetriever ==
  LET qualifies == /\ query_classification.has_is_news
                   /\ query_classification.is_news_request
                   /\ query_classification.has_confidence
                   /\ query_classification.confidence > 6
  IN  (query_classification.kind = "dict" /\ ~qualifies) =>
        /\ pc \in {"should_fetch_news", "handle_general", "END"}
        /\ calls.news = 0
        /\ calls.web = 0
        /\ news_results = NoNews
        /\ web_search_results = NoWeb
        /\ (pc = "END" => path = <<"classify_query", "handle_general">>)

\* C12 witness: the query "python", classified as not news with confidence
\* 1.0, ended after classify_query and handle_general.
C12_Witness ==
  /\ pc = "END"
  /\ user_input = <<"python">>
  /\ query_classification.kind = "dict"
  /\ ~query_classification.is_news_request
  /\ query_classification.confidence = 10
  /\ path = <<"classify_query", "handle_general">>
  /\ final_response = "answer"

\* C13: whenever fetch_news has called the retriever, the call is by
\* category exactly when some vocabulary word occurs in the lower-cased
\* query, the category is the first of general, business, technology,
\* entertainment, health, science, sports that occurs, wherever it stands in
\* the query, and otherwise the call is a free-text search with the query as
\* the user typed it.
C13_FirstCategoryInEnumerationOrder ==
  LET occurs(c) ==
        \E i \in 1..Len(user_input) : IsSubstring(c, Lower(user_input[i]))
      expected ==
        IF occurs("general") THEN "general"
        ELSE IF occurs("business") THEN "business"
        ELSE IF occurs("technology") THEN "technology"
        ELSE IF occurs("entertainment") THEN "entertainment"
        ELSE IF occurs("health") THEN "health"
        ELSE IF occurs("science") THEN "science"
        ELSE IF occurs("sports") THEN "sports"
        ELSE "None"
  IN  calls.news = 1 =>
        IF expected # "None"
        THEN news_call = [method |-> "get_news_by_category",
                          category |-> expected, query |-> <<>>]
        ELSE news_call = [method |-> "search_news", category |-> "",
                          query |-> user_input]

\* C13 witness: for the query "esports Technology" the retriever was called
\* with the category technology, which comes later in the query and earlier
\* in the enumeration.
C13_Witness ==
  /\ user_input = <<"esports", "Technology">>
  /\ calls.news = 1
  /\ news_call.method = "get_news_by_category"
  /\ news_call.category = "technology"

\* C15: from the call of run_workflow until its caller has the result or the
\* exception, no step changes the history list the caller supplied: same
\* length, same turns, same order.
C15_CallerHistoryUntouched ==
  [][(pc # "idle" /\ pc' # "idle") => caller_history' = caller_history]_vars

\* C15 witness: an invocation with a one-turn history has ended; the state's
\* own history has grown, the caller's list still has its one turn.
C15_Witness ==
  /\ Finished
  /\ Len(caller_history) = 1
  /\ Len(chat_history) > 1

\* C17 (as the specification states it): the final stage makes exactly one
\* chat call and the preceding turns it passes are the caller's history,
\* each turn once, in order.
C17_HistoryPassedOnce ==
  llm_input.sent =>
    /\ calls.llm_chat = 1
    /\ llm_input.history = format_chat_history(caller_history)

\* C18: when the model call fails, or the reply with its optional fence
\* removed is not JSON, classify_query hands the node the fallback
\* classification (not news, confidence 0.5) and no exception: the node's
\* error field stays unset, nothing is raised, no retriever is called and
\* the invocation goes to handle_general. A complete JSON object is parsed
\* whether or not it is fenced.
C18_ClassifyFallsBack ==
  LET reply == outcome.reply
  IN  /\ (calls.llm_classify = 1 /\ reply.kind \in {"call_failed", "not_json"}) =>
           /\ query_classification =
                [kind |-> "dict", has_is_news |-> TRUE, is_news_request |-> FALSE,
                 has_confidence |-> TRUE, confidence |-> 5]
           /\ error = "None"
           /\ exc = "None"
           /\ calls.news = 0
           /\ pc \in {"should_fetch_news", "handle_general", "END"}
           /\ (pc = "END" => path = <<"classify_query", "handle_general">>)
      /\ (calls.llm_classify = 1 /\ reply.kind = "json_object"
            /\ reply.has_is_news /\ reply.has_confidence) =>
           /\ query_classification.kind = "dict"
           /\ query_classification.is_news_request = reply.is_news_request
           /\ query_classification.confidence = reply.confidence

\* C18 witness: a reply that is a json-tagged fenced block holding text that
\* is not JSON ended in handle_general with the fallback classification.
C18_Witness ==
  /\ pc = "END"
  /\ outcome.reply.kind = "not_json"
  /\ outcome.reply.opening = <<Fence, "json">>
  /\ outcome.reply.closed
  /\ query_classification = FallbackClassification
  /\ path = <<"classify_query", "handle_general">>

\* C19 (as the specification states it): whenever the router evaluates the
\* edge out of classify_query after the model was asked, the stored
\* classification is a complete record: a boolean is_news_request and a
\* confidence between 0 and 1.
C19_RouterSeesCompleteRecord ==
  (pc = "should_fetch_news" /\ calls.llm_classify = 1) =>
    /\ query_classification.kind = "dict"
    /\ query_classification.has_is_news
    /\ query_classification.has_confidence
    /\ query_classification.confidence \in 0..10

\* C16: in the session, a processed turn whose invocation returned appends
\* exactly the user turn (the query) and then the assistant turn (the
\* response) to the conversation history; a turn whose invocation raised
\* leaves the history as it was; any other step leaves it as it was or is
\* the clearing of it; and the history always has even length with user
\* and assistant turns alternating.
C16_HistoryGrowsByPairs ==
  /\ [](/\ Len(caller_history) % 2 = 0
        /\ \A i \in 1..Len(caller_history) :
             caller_history[i].role = IF i % 2 = 1 THEN "user" ELSE "assistant")
  /\ [][/\ (pc = "END" /\ pc' = "idle") =>
            caller_history' =
              caller_history \o
                <<[role |-> "user", content |-> user_input],
                  [role |-> "assistant",
                   content |-> IF error # "None"
                               THEN <<"warning", error, final_response>>
                               ELSE <<final_response>>]>>
        /\ (pc = "raised" /\ pc' = "idle") => caller_history' = caller_history
        /\ ~(pc \in {"END", "raised"} /\ pc' = "idle") =>
            \/ caller_history' = caller_history
            \/ (pc = "idle" /\ pc' = "idle" /\ caller_history' = <<>>)]_vars

\* C16 witness: after one turn that returned and one turn that raised, the
\* session shows four messages and its history holds the two turns of the
\* exchange that returned.
C16_Witness ==
  /\ pc = "idle"
  /\ Len(messages) = 4
  /\ Len(caller_history) = 2
  /\ caller_history[1].role = "user"
  /\ caller_history[2].role = "assistant"

\* C14: when the second of two invocations with the same query, an empty
\* history and the same stub answers is over, it ended the way the first
\* did (returned or raised, same exception) with the same path, the same
\* classification, news and web results, final response and error.
C14_SecondInvocationIdentical ==
  (first.round = 2 /\ pc \in {"END", "raised"}) =>
    /\ pc = first.pc
    /\ exc = first.exc
    /\ path = first.path
    /\ query_classification = first.classification
    /\ news_results = first.news
    /\ web_search_results = first.web
    /\ final_response = first.final_response
    /\ error = first.error

\* C14 witness: the first invocation started with no collaborator
\* constructed and went through all four nodes of the news path; the second
\* one, on the handles the first created, has ended too.
C14_Witness ==
  /\ first.round = 2
  /\ pc = "END"
  /\ first.handles = <<"None", "None", "None">>
  /\ chatbot_agent = "NewsGenieAgent"
  /\ news_fetcher = "NewsFetcher"
  /\ web_search_tool = "WebSearchTool"
  /\ first.path = <<"classify_query", "fetch_news", "web_search",
                    "generate_response">>

\* C20 (as the specification states it): a collaborator operation never
\* raises; its record has status error, a message and no items when the
\* underlying API call failed or reported a status that is not ok, and
\* status success with the formatted items in every other case.
C20_ErrorOnlyOnApiFailure ==
  tool_log.op # "None" =>
    /\ ~tool_log.raised
    /\ IF tool_log.upstream \in {"raises", "not_ok"}
       THEN /\ tool_log.status = "error"
            /\ tool_log.message # ""
            /\ tool_log.items = <<>>
       ELSE /\ tool_log.status = "success"
            /\ Len(tool_log.items) = tool_log.n

\* C20 (amended): a collaborator operation never raises; its record has
\* status error, a message and no items when the underlying API call failed
\* or reported a status that is not ok, when get_news_by_category was given
\* a category that is not in the vocabulary after lower-casing, or when the
\* formatter of a NewsFetcher operation or of WebSearchTool.search met an
\* item it cannot read; in every other case it has status success, a
\* message and one formatted item per raw item.
C20_ErrorOnFailureOrRejection ==
  LET rejected ==
        /\ tool_log.op = "get_news_by_category"
        /\ tool_log.category \notin {"general", "business", "technology",
                                      "Technology", "entertainment", "health",
                                      "science", "sports"}
      unreadable ==
        /\ tool_log.upstream = "malformed"
        /\ tool_log.op # "web_search_news"
  IN  tool_log.op # "None" =>
        /\ ~tool_log.raised
        /\ tool_log.message # ""
        /\ IF tool_log.upstream \in {"raises", "not_ok"} \/ rejected \/ unreadable
           THEN tool_log.status = "error" /\ tool_log.items = <<>>
           ELSE tool_log.status = "success" /\ Len(tool_log.items) = tool_log.n

\* C20 witness: get_news_by_category was called with a category outside the
\* vocabulary while the API would have answered ok with articles, and it
\* returned an error record.
C20_Witness ==
  /\ tool_log.op = "get_news_by_category"
  /\ tool_log.category = "politics"
  /\ tool_log.upstream = "ok"
  /\ tool_log.n > 0
  /\ tool_log.status = "error"
  /\ tool_log.items = <<>>
  /\ ~tool_log.raised

\* C21: within one invocation each external call (the classifier model
\* call, the news retriever call, the web search call, the response model
\* call) has been made at most once, whether it succeeded or failed.
C21_NoCallRepeated ==
  /\ calls.llm_classify <= 1
  /\ calls.news <= 1
  /\ calls.web <= 1
  /\ calls.llm_chat <= 1

\* C21 witness: an invocation has ended in which the news call, the web
\* search call and the response model call all failed, each made once.
C21_Witness ==
  /\ pc = "END"
  /\ outcome.news = "raises"
  /\ outcome.web = "raises"
  /\ outcome.chain = "raises"
  /\ calls = [llm_classify |-> 1, news |-> 1, web |-> 1, llm_chat |-> 1]

\* C24: whenever generate_response has run on a news result that succeeded
\* with n >= 1 articles, the article entries of the context it assembled are
\* exactly the first min(5, n) articles, numbered and ordered as retrieved,
\* and none beyond the fifth.
C24_FirstFiveArticles ==
  (Responded /\ news_results.kind = "dict" /\ news_results.status = "success"
     /\ Len(news_results.articles) >= 1) =>
    LET n == Len(news_results.articles)
        k == IF n < 5 THEN n ELSE 5
        listed == SelectSeq(llm_input.context,
                            LAMBDA p : p.part = "item" /\ p.source = "news")
    IN  /\ Len(listed) = k
        /\ \A i \in 1..k :
             listed[i].n = i /\ listed[i].id = news_results.articles[i].id
        /\ \A i \in 1..Len(llm_input.context) :
             llm_input.context[i].source = "news" =>
               llm_input.context[i].id <= 5

\* C24 witness: generate_response ran on six articles and listed five.
C24_Witness ==
  /\ Responded
  /\ news_results.status = "success"
  /\ Len(news_results.articles) = 6
  /\ Len(llm_input.context) = 6
  /\ llm_input.context[6].id = 5

\* C25: the text of the final model call always ends in the query as the
\* user typed it; it is that query alone, with no frame and no context,
\* exactly when no context was assembled, which is always so after
\* handle_general and is so after generate_response when the news result
\* contributed no article and the web result contributed nothing; in every
\* other case it is the instruction frame holding the assembled context.
C25_RawQueryIffNoContext ==
  llm_input.sent =>
    LET news_contributes ==
          /\ news_results.kind = "dict"
          /\ news_results.status = "success"
          /\ Len(news_results.articles) >= 1
        web_contributes ==
          /\ news_results.kind # "dict"
          /\ web_search_results.kind = "dict"
          /\ web_search_results.status = "success"
          /\ Len(web_search_results.results) >= 1
    IN  /\ llm_input.query = user_input
        /\ llm_input.enhanced <=> llm_input.context # <<>>
        /\ Last(path) = "handle_general" => ~llm_input.enhanced
        /\ Last(path) = "generate_response" =>
             (llm_input.enhanced <=> (news_contributes \/ web_contributes))

\* C25 witness: generate_response ran after a news result without articles
\* and a failed web search, and sent the bare query.
C25_Witness ==
  /\ Responded
  /\ news_results.status = "success"
  /\ Len(news_results.articles) = 0
  /\ web_search_results.status = "error"
  /\ ~llm_input.enhanced
  /\ llm_input.context = <<>>
  /\ llm_input.query = user_input

\* C26: an invocation starts with error null; a step changes error only by
\* running a node, and then to one of the texts a node's except branch
\* stores; and once error is set no later step of the invocation makes it
\* null again.
C26_ErrorMonotonic ==
  /\ [](pc = "classify_query" => error = "None")
  /\ [][(pc # "idle" /\ pc' \notin {"idle", "classify_query"}) =>
          /\ error # "None" => error' # "None"
          /\ error' # error =>
               /\ Len(path') = Len(path) + 1
               /\ error' \in {"Classification error", "News fetch error",
                               "Response generation error",
                               "General query error"}]_vars

\* C26 witness: a terminal state carries the error set by classify_query
\* together with an answer produced normally by the final stage.
C26_Witness ==
  /\ pc = "END"
  /\ error = "Classification error"
  /\ outcome.chain = "answers"
  /\ final_response = "answer"

\* C27: when an invocation is over, web_search_results is non-null only if
\* news_results is non-null with status error or fewer than 3 articles;
\* news_results is non-null only if the classification was a news request
\* with confidence above 0.6; and a news result that succeeded with 3 or
\* more articles goes with a null web_search_results.
C27_ResultsFollowRoute ==
  Finished =>
    /\ web_search_results.kind # "None" =>
         /\ news_results.kind = "dict"
         /\ \/ news_results.status = "error"
            \/ Len(news_results.articles) < 3
    /\ news_results.kind # "None" =>
         /\ query_classification.kind = "dict"
         /\ query_classification.has_is_news
         /\ query_classification.is_news_request
         /\ query_classification.has_confidence
         /\ query_classification.confidence > 6
    /\ (news_results.kind = "dict" /\ news_results.status = "success"
          /\ Len(news_results.articles) >= 3) =>
         web_search_results = NoWeb

\* C27 witness: a returned state holds a web result next to a news result
\* that succeeded with two articles.
C27_Witness ==
  /\ pc = "END"
  /\ news_results.status = "success"
  /\ Len(news_results.articles) = 2
  /\ web_search_results.kind = "dict"
  /\ query_classification.confidence = 7

\* C28: in the session, between turns the message list and the history both
\* have even length, and the history is never longer than the message list;
\* starting a turn appends the user message, ending it appends one
\* assistant message, whether the workflow returned or raised, and nothing
\* in between touches the list; the only other change is the clearing,
\* which empties both lists together.
C28_MessagesGrowByPairs ==
  /\ [](/\ Len(caller_history) <= Len(messages)
        /\ pc = "idle" =>
             (Len(messages) % 2 = 0 /\ Len(caller_history) % 2 = 0))
  /\ [][/\ (pc = "idle" /\ pc' # "idle") =>
            messages' =
              messages \o <<[role |-> "user", content |-> user_input']>>
        /\ (pc \in {"END", "raised"} /\ pc' = "idle") =>
            /\ Len(messages') = Len(messages) + 1
            /\ SubSeq(messages', 1, Len(messages)) = messages
            /\ messages'[Len(messages')].role = "assistant"
        /\ (pc = "idle" /\ pc' = "idle") =>
            \/ (messages' = messages /\ caller_history' = caller_history)
            \/ (messages' = <<>> /\ caller_history' = <<>>)
        /\ (pc \notin {"idle", "END", "raised"}) => messages' = messages]_vars

\* C28 witness: after one turn whose invocation raised, the message list
\* holds the user message and the error message, and the history is empty.
C28_Witness ==
  /\ pc = "idle"
  /\ Len(messages) = 2
  /\ messages[1].role = "user"
  /\ messages[2].role = "assistant"
  /\ messages[2].content[1] = "An error occurred"
  /\ caller_history = <<>>

\* C23 (as the specification states it): no invocation executes more than
\* four stages, and every invocation that has started reaches END.
C23_ReachesEnd ==
  /\ [](Len(path) <= 4)
  /\ (pc = "classify_query") ~> (pc = "END")

\* C22: creation of the singletons is not guarded: an invocation that found
\* a global uninitialised at its test always goes on to call the
\* constructor, whatever another invocation has assigned in the meantime,
\* and every constructor call that returns makes a further instance; so a
\* collaborator is constructed as many times as invocations found it
\* uninitialised, which can be more than once.
C22_CreationNotGuarded ==
  /\ [](\A c \in Collaborators :
          /\ getters.handle[c] <= getters.constructed[c]
          /\ getters.constructed[c] <= Cardinality(Threads))
  /\ [][\A t \in Threads :
          getters.thread[t].pc = "construct" =>
            LET c == getters.thread[t].global
            IN  \/ getters'.thread[t] = getters.thread[t]
                \/ /\ getters'.thread[t].pc = "assign"
                   /\ getters'.constructed[c] = getters.constructed[c] + 1
                   /\ getters'.thread[t].instance = getters'.constructed[c]
                \/ /\ getters'.thread[t].pc = "idle"
                   /\ getters'.constructed = getters.constructed]_vars

\* C22 witness: both invocations made the first use of the chatbot agent at
\* the same time; it was constructed twice and the two invocations hold
\* different instances.
C22_Witness ==
  /\ getters.constructed["chatbot_agent"] = 2
  /\ getters.thread["A"].pc = "idle"
  /\ getters.thread["B"].pc = "idle"
  /\ getters.thread["A"].got["chatbot_agent"] # 0
  /\ getters.thread["B"].got["chatbot_agent"] # 0
  /\ getters.thread["A"].got["chatbot_agent"]
       # getters.thread["B"].got["chatbot_agent"]

====
